---------------------------- MODULE Spec2Model ----------------------------
(***************************************************************************)
(* Onboarding (config flow) of the Remootio integration:                   *)
(*   custom_components/remootio/config_flow.py  validate_input,            *)
(*                                              RemootioConfigFlow         *)
(*   custom_components/remootio/utils.py        check_device_availability, *)
(*                                              _wait_for_connected,       *)
(*                                              _check_sensor_installed,   *)
(*                                              _check_api_version,        *)
(*                                              get_serial_number          *)
(* Strings are sequences of one-character strings.  Every await that can   *)
(* suspend the handler (ws_connect, the client's __aenter__, asyncio.sleep,*)
(* the client's __aexit__) ends a step; the code between two awaits is one *)
(* atomic step of the event loop.  The aioremootio client, the network and *)
(* the Home Assistant flow manager are the environment: what they answer   *)
(* is drawn with \E from the answers they can give.                        *)
(***************************************************************************)
EXTENDS Integers, Sequences, FiniteSets, TLC

VARIABLES
    active,     \* the flows (wizard instances) that exist
    pool,       \* which submissions a user may type: "all" or "small"
    pc,         \* pc[f]: where flow f's async_step_user handler stands
    input,      \* input[f]: the user_input of the last submission
    result,     \* result[f]: the last FlowResult handed to the framework
    obs,        \* obs[f]: what the current submission has done so far
    clientOpen, \* clientOpen[f]: the RemootioClient context is entered
    waited,     \* waited[f]: sleeps of REMOOTIO_DELAY done by _wait_for_connected
    late,       \* late[f]: delays between the start of the outer and inner timeout
    pending,    \* pending[f]: what get_serial_number is about to return or raise
    entries     \* the config entries of the domain, in creation order

vars == <<active, pool, pc, input, result, obs, clientOpen, waited, late, pending, entries>>

---------------------------------------------------------------------------
(* Bounds of the model *)

\* REMOOTIO_TIMEOUT counted in sleeps of REMOOTIO_DELAY (const.py sets both).
TimeoutTicks == 3

\* How long the client's __aenter__ may take, in the same unit.
MaxEnterDelay == 1

FlowIds == {1, 2}

---------------------------------------------------------------------------
(* Characters and strings *)

Digits == {"0", "1", "2", "3", "4", "5", "6", "7", "8", "9"}

LowerLetters ==
    <<"a", "b", "c", "d", "e", "f", "g", "h", "i", "j", "k", "l", "m",
      "n", "o", "p", "q", "r", "s", "t", "u", "v", "w", "x", "y", "z">>

UpperLetters ==
    <<"A", "B", "C", "D", "E", "F", "G", "H", "I", "J", "K", "L", "M",
      "N", "O", "P", "Q", "R", "S", "T", "U", "V", "W", "X", "Y", "Z">>

Range(s) == {s[i] : i \in DOMAIN s}

Alnum == Digits \cup Range(LowerLetters) \cup Range(UpperLetters)

HexUpper == Digits \cup {"A", "B", "C", "D", "E", "F"}

\* The characters that occur in the strings of the model.
Chars == Alnum \cup {".", ":", "-", " ", "/"}

\* str.upper() on one character: a..z go to A..Z, everything else stays.
UpperChar ==
    [c \in Chars |->
        IF \E i \in DOMAIN LowerLetters : LowerLetters[i] = c
        THEN UpperLetters[CHOOSE i \in DOMAIN LowerLetters : LowerLetters[i] = c]
        ELSE c]

\* str.upper()
Upper(s) == [i \in DOMAIN s |-> UpperChar[s[i]]]

DigitValue(c) == CHOOSE n \in 0..9 : <<"0", "1", "2", "3", "4", "5", "6", "7", "8", "9">>[n + 1] = c

\* int(port) on a string of decimal digits
RECURSIVE ParseInt(_)
ParseInt(s) ==
    IF Len(s) = 0 THEN 0
    ELSE 10 * ParseInt(SubSeq(s, 1, Len(s) - 1)) + DigitValue(s[Len(s)])

ColonAt(s) == {i \in DOMAIN s : s[i] = ":"}

---------------------------------------------------------------------------
(* The patterns of aioremootio.constants, as the specification states them *)

\* The length a key must have.
KeyLen == 64

\* The port used when the host names none.
DefaultPort == 8080

\* One dotted name or address: labels of letters, digits and hyphens that
\* start and end with a letter or digit.
HostNameOk(s) ==
    /\ Len(s) > 0
    /\ \A i \in DOMAIN s : s[i] \in Alnum \cup {"-", "."}
    /\ s[1] \in Alnum
    /\ s[Len(s)] \in Alnum
    /\ \A i \in DOMAIN s :
          s[i] = "." => /\ s[i - 1] \in Alnum
                        /\ s[i + 1] \in Alnum

PortOk(s) ==
    /\ Len(s) > 0
    /\ \A i \in DOMAIN s : s[i] \in Digits

\* CONNECTION_OPTION_REGEX_HOST.match(host): hostname or IP, optional :port
HostMatches(h) ==
    \/ /\ ColonAt(h) = {}
       /\ HostNameOk(h)
    \/ /\ Cardinality(ColonAt(h)) = 1
       /\ LET c == CHOOSE i \in ColonAt(h) : TRUE
          IN  /\ HostNameOk(SubSeq(h, 1, c - 1))
              /\ PortOk(SubSeq(h, c + 1, Len(h)))

\* CONNECTION_OPTION_REGEX_API_SECRET_KEY / _API_AUTH_KEY .match(key):
\* 64 characters, each an uppercase hexadecimal digit
KeyMatches(k) ==
    /\ Len(k) = KeyLen
    /\ \A i \in DOMAIN k : k[i] \in HexUpper

---------------------------------------------------------------------------
(* What the user may type *)

Rep(a, b, n) == [i \in 1..n |-> IF i % 2 = 1 THEN a ELSE b]

KeyUpperA == Rep("A", "7", KeyLen)
KeyLowerA == Rep("a", "7", KeyLen)
KeyUpperB == Rep("B", "C", KeyLen)
KeyMixedB == Rep("b", "C", KeyLen)
KeyShort == Rep("A", "7", KeyLen - 1)
KeyNonHex == Rep("g", "7", KeyLen)

Keys == {KeyUpperA, KeyLowerA, KeyMixedB, KeyShort, KeyNonHex}

HostGw == <<"g", "w", ".", "l", "a", "n">>
HostGwIp == <<"1", "0", ".", "0", ".", "0", ".", "7", ":", "8", "0", "8", "0">>
HostGate == <<"G", "a", "t", "e", "-", "1">>
HostBare == <<"1", "0", ".", "0", ".", "0", ".", "8">>
HostOld == <<"o", "l", "d", ".", "l", "a", "n", ":", "8", "1">>
HostDown == <<"1", "0", ".", "0", ".", "0", ".", "9">>
HostEmpty == <<>>
HostSpace == <<"g", "w", " ", "l", "a", "n">>
HostUrl == <<"w", "s", ":", "/", "/", "g", "w">>
HostNoPort == <<"g", "w", ".", "l", "a", "n", ":">>

Hosts ==
    {HostGw, HostGwIp, HostGate, HostBare, HostOld, HostDown,
     HostEmpty, HostSpace, HostUrl, HostNoPort}

\* STEP_USER_DATA_SCHEMA: CoverDeviceClass.GARAGE, CoverDeviceClass.GATE
DeviceClasses == {"garage", "gate"}

Inputs ==
    [host : Hosts, api_secret_key : Keys, api_auth_key : Keys,
     device_class : DeviceClasses]

In(h, s, a, c) ==
    [host |-> h, api_secret_key |-> s, api_auth_key |-> a, device_class |-> c]

NoInput == In(<<>>, <<>>, <<>>, "")

\* A small pool: a bad host, and one device under two of its addresses.
SmallPool ==
    {In(HostSpace, KeyUpperA, KeyMixedB, "garage"),
     In(HostGw, KeyLowerA, KeyMixedB, "garage"),
     In(HostGwIp, KeyUpperA, KeyMixedB, "gate")}

---------------------------------------------------------------------------
(* The network the host framework runs in *)

NoDevice == [serial |-> "", sensor |-> FALSE, api |-> 0]

Device(sn, sensor, api) == [serial |-> sn, sensor |-> sensor, api |-> api]

\* The keys every device of this network was set up with.
DeviceSecretKey == KeyUpperA
DeviceAuthKey == KeyUpperB

\* get_serial_number's first line:
\*   host, port = options.host.split(':') if ':' in options.host
\*                else (options.host, 8080);  ... int(port)
\* Unpacking anything but two parts, or int() of a non-number, is a ValueError.
SplitHostFails(h) ==
    \/ Cardinality(ColonAt(h)) > 1
    \/ /\ Cardinality(ColonAt(h)) = 1
       /\ LET c == CHOOSE i \in ColonAt(h) : TRUE
          IN  ~ PortOk(SubSeq(h, c + 1, Len(h)))

SplitHost(h) ==
    IF ColonAt(h) = {}
    THEN <<h, DefaultPort>>
    ELSE LET c == CHOOSE i \in ColonAt(h) : TRUE
         IN  <<SubSeq(h, 1, c - 1), ParseInt(SubSeq(h, c + 1, Len(h)))>>

DeviceAt(name, port) ==
    CASE name = HostGw /\ port = 8080 -> Device("RM-0001", TRUE, 3)
      [] name = SubSeq(HostGwIp, 1, 8) /\ port = 8080 -> Device("RM-0001", TRUE, 3)
      [] name = HostGate /\ port = 8080 -> Device("RM-0003", TRUE, 2)
      [] name = HostBare /\ port = 8080 -> Device("RM-0002", FALSE, 3)
      [] name = SubSeq(HostOld, 1, 7) /\ port = 81 -> Device("RM-0004", TRUE, 1)
      [] OTHER -> NoDevice

\* The device a ConnectionOptions host leads to, if any.
DeviceOf(h) ==
    IF SplitHostFails(h) THEN NoDevice
    ELSE DeviceAt(SplitHost(h)[1], SplitHost(h)[2])

\* The device accepts the keys of these ConnectionOptions.
CredentialsOk(options) ==
    /\ options.api_secret_key = DeviceSecretKey
    /\ options.api_auth_key = DeviceAuthKey

---------------------------------------------------------------------------
(* Values *)

NoData ==
    [host |-> <<>>, api_secret_key |-> <<>>, api_auth_key |-> <<>>,
     device_class |-> "", serial_number |-> ""]

NoOptions == [host |-> <<>>, api_secret_key |-> <<>>, api_auth_key |-> <<>>]

NoOutcome == [kind |-> "none", exc |-> "", serial |-> ""]
Raise(e) == [kind |-> "raise", exc |-> e, serial |-> ""]
Return(sn) == [kind |-> "return", exc |-> "", serial |-> sn]

\* What a submission has done so far (reset by every submission).
NoObs ==
    [probeStarted |-> FALSE,   \* check_device_availability was started
     available |-> "unknown",  \* its answer: "yes" or "no"
     tcpTried |-> FALSE,       \* ... after the TCP fallback was tried
     options |-> NoOptions,    \* the ConnectionOptions validate_input built
     clientCreated |-> FALSE,  \* async with RemootioClient(...) was attempted
     entered |-> FALSE,        \* ... and its __aenter__ returned
     sawConnected |-> FALSE,   \* a read of client.connected gave True
     waitResult |-> "none",    \* what _wait_for_connected returned
     timedOutBy |-> "none",    \* the timeout that fired: "outer" or "inner"
     checks |-> {},            \* the checks and reads after the wait
     gsn |-> NoOutcome]        \* how get_serial_number ended

\* self.async_show_form(step_id="user", errors=errors)
ShowForm(errors) ==
    [type |-> "form", errors |-> errors, reason |-> "", title |-> <<>>, data |-> NoData]

\* self.async_abort(reason=...)
Abort(reason) ==
    [type |-> "abort", errors |-> {}, reason |-> reason, title |-> <<>>, data |-> NoData]

\* self.async_create_entry(title=..., data=...)
CreateEntry(title, data) ==
    [type |-> "create_entry", errors |-> {}, reason |-> "", title |-> title, data |-> data]

---------------------------------------------------------------------------
(* const.py and exceptions.py, as the specification states them *)

\* const.py: EXPECTED_MINIMUM_API_VERSION
EXPECTED_MINIMUM_API_VERSION == 2

\* exceptions.py: the unsupported-API-version error is a device-capability
\* error, as the no-sensor error is; the flow treats both alike.
Bases(exc) ==
    IF exc = "UnsupportedRemootioApiVersionError"
    THEN {exc, "UnsupportedRemootioDeviceError", "Exception"}
    ELSE {exc, "Exception"}

---------------------------------------------------------------------------
(* config_flow.py: validate_input *)

\* except <cls>: catches an instance of cls or of a subclass
IsInstance(exc, cls) == cls \in Bases(exc)

\* A variant: the auth key is checked before the secret key.
ValidateFormatAuthFirst(data) ==
    IF ~ HostMatches(data.host) THEN "InvalidHost"
    ELSE IF ~ KeyMatches(Upper(data.api_auth_key)) THEN "InvalidApiAuthKey"
    ELSE IF ~ KeyMatches(Upper(data.api_secret_key)) THEN "InvalidApiSecretKey"
    ELSE "ok"

\* A variant: the host is not checked.
ValidateFormatKeysFirst(data) ==
    IF ~ KeyMatches(Upper(data.api_secret_key)) THEN "InvalidApiSecretKey"
    ELSE IF ~ KeyMatches(Upper(data.api_auth_key)) THEN "InvalidApiAuthKey"
    ELSE "ok"

\* The three format checks, in the order of the code; "ok" or the exception.
ValidateFormat(data) ==
    IF ~ HostMatches(data.host) THEN "InvalidHost"
    ELSE IF ~ KeyMatches(Upper(data.api_secret_key)) THEN "InvalidApiSecretKey"
    ELSE IF ~ KeyMatches(Upper(data.api_auth_key)) THEN "InvalidApiAuthKey"
    ELSE "ok"

\* ConnectionOptions(data[CONF_HOST], secret.upper(), auth.upper())
ConnectionOptionsOf(data) ==
    [host |-> data.host,
     api_secret_key |-> Upper(data.api_secret_key),
     api_auth_key |-> Upper(data.api_auth_key)]

\* A variant: the keys are stored as typed.
ValidatedRecordRawKeys(data, serial) ==
    [title |-> <<data.host, serial>>,
     data |-> [host |-> data.host,
               api_secret_key |-> data.api_secret_key,
               api_auth_key |-> data.api_auth_key,
               device_class |-> data.device_class,
               serial_number |-> serial]]

\* The dictionary validate_input returns; the title is kept as its two parts.
ValidatedRecord(data, serial) ==
    [title |-> <<data.host, serial>>,
     data |-> [host |-> data.host,
               api_secret_key |-> Upper(data.api_secret_key),
               api_auth_key |-> Upper(data.api_auth_key),
               device_class |-> data.device_class,
               serial_number |-> serial]]

\* A variant: an authentication error is taken for a connection error.
ValidateInputRaisesAuthAsConnect(exc) ==
    IF IsInstance(exc, "RemootioClientConnectionEstablishmentError") THEN "CannotConnect"
    ELSE IF IsInstance(exc, "RemootioClientAuthenticationError") THEN "CannotConnect"
    ELSE IF IsInstance(exc, "UnsupportedRemootioDeviceError") THEN "DeviceNotSupported"
    ELSE exc

\* The except clauses of validate_input: what it raises when exc is raised
\* inside its try block.
ValidateInputRaises(exc) ==
    IF IsInstance(exc, "RemootioClientConnectionEstablishmentError") THEN "CannotConnect"
    ELSE IF IsInstance(exc, "RemootioClientAuthenticationError") THEN "InvalidAuth"
    ELSE IF IsInstance(exc, "UnsupportedRemootioDeviceError") THEN "DeviceNotSupported"
    ELSE exc

---------------------------------------------------------------------------
(* config_flow.py: RemootioConfigFlow.async_step_user *)

\* The except clauses of async_step_user.
StepUserExcept(exc) ==
    IF IsInstance(exc, "CannotConnect") THEN ShowForm({<<"base", "cannot_connect">>})
    ELSE IF IsInstance(exc, "InvalidHost") THEN ShowForm({<<"host", "host_invalid">>})
    ELSE IF IsInstance(exc, "InvalidApiSecretKey")
         THEN ShowForm({<<"api_secret_key", "secret__api_secret_key_invalid">>})
    ELSE IF IsInstance(exc, "InvalidApiAuthKey")
         THEN ShowForm({<<"api_auth_key", "secret__api_auth_key_invalid">>})
    ELSE IF IsInstance(exc, "InvalidAuth") THEN ShowForm({<<"base", "invalid_auth">>})
    ELSE IF IsInstance(exc, "DeviceNotSupported") THEN Abort("unsupported_device")
    ELSE ShowForm({<<"base", "unknown">>})

\* A variant: the unique id is never looked up.
NeverConfigured(es, uid) == FALSE

\* self._abort_if_unique_id_configured: an entry of the domain has this id
UniqueIdConfigured(es, uid) == \E i \in DOMAIN es : es[i].unique_id = uid

\* ... which, given updates, first writes them into that entry's data
UpdateEntries(es, uid, updates) ==
    [i \in DOMAIN es |->
        IF es[i].unique_id = uid THEN [es[i] EXCEPT !.data = updates] ELSE es[i]]

\* The handler ends: validate_input raised exc (or "" and returned rec).
\* async_set_unique_id, _abort_if_unique_id_configured and async_create_entry
\* run without an await that suspends, so the unique id of a flow is set and
\* used in this one step and no other flow is ever seen holding it.
EndStep(f, exc, rec) ==
    IF exc # ""
    THEN /\ result' = [result EXCEPT ![f] = StepUserExcept(exc)]
         /\ pc' = [pc EXCEPT ![f] =
                      IF StepUserExcept(exc).type = "abort" THEN "finished" ELSE "shown"]
         /\ UNCHANGED entries
    ELSE LET uid == rec.data.serial_number
         IN  IF UniqueIdConfigured(entries, uid)
             THEN /\ entries' = UpdateEntries(entries, uid, rec.data)
                  /\ result' = [result EXCEPT ![f] = Abort("already_configured")]
                  /\ pc' = [pc EXCEPT ![f] = "finished"]
             ELSE /\ entries' = Append(entries,
                                   [unique_id |-> uid, title |-> rec.title, data |-> rec.data])
                  /\ result' = [result EXCEPT ![f] = CreateEntry(rec.title, rec.data)]
                  /\ pc' = [pc EXCEPT ![f] = "finished"]

\* get_serial_number ended with outcome g; validate_input and the handler
\* finish in the same step.
EndWith(f, g) ==
    IF g.kind = "raise"
    THEN EndStep(f, ValidateInputRaises(g.exc), ValidatedRecord(input[f], ""))
    ELSE EndStep(f, "", ValidatedRecord(input[f], g.serial))

---------------------------------------------------------------------------
(* utils.py *)

\* A variant: the state of the sensor is not looked at.
CheckSensorInstalledNever(dev, raise_error) == "ok"

\* _check_sensor_installed: client.state == State.NO_SENSOR_INSTALLED
CheckSensorInstalled(dev, raise_error) ==
    IF ~ dev.sensor /\ raise_error THEN "UnsupportedRemootioDeviceError" ELSE "ok"

\* A variant: the API version is not looked at.
CheckApiVersionNever(dev) == "ok"

\* _check_api_version: client.api_version < EXPECTED_MINIMUM_API_VERSION
CheckApiVersion(dev) ==
    IF dev.api < EXPECTED_MINIMUM_API_VERSION
    THEN "UnsupportedRemootioApiVersionError"
    ELSE "ok"

\* The body of "async with RemootioClient(...)" once _wait_for_connected
\* has returned True: the outcome, and the checks and reads it made.
ConnectedBodyChecked(dev) ==
    IF CheckSensorInstalled(dev, TRUE) # "ok"
    THEN [out |-> Raise(CheckSensorInstalled(dev, TRUE)), checks |-> {"sensor"}]
    ELSE IF CheckApiVersion(dev) # "ok"
    THEN [out |-> Raise(CheckApiVersion(dev)), checks |-> {"sensor", "api"}]
    ELSE [out |-> Return(dev.serial), checks |-> {"sensor", "api", "serial"}]

\* A variant: the result of the wait is not looked at.
ConnectedBodyIgnoringWait(dev, connected) == ConnectedBodyChecked(dev)

\* The body of "async with RemootioClient(...)" once _wait_for_connected
\* has returned `connected`.
ConnectedBody(dev, connected) ==
    IF connected
    THEN ConnectedBodyChecked(dev)
    ELSE [out |-> Raise("ConfigEntryNotReady"), checks |-> {}]

\* Leaving "async with async_timeout.timeout(REMOOTIO_TIMEOUT)" after its
\* timer cancelled the task turns the cancellation into a TimeoutError.
OuterTimeoutExit(exc) == IF exc = "CancelledError" THEN "TimeoutError" ELSE exc

\* except (asyncio.TimeoutError, ClientError) -> ConfigEntryNotReady
GetSerialNumberRaises(exc) ==
    IF OuterTimeoutExit(exc) \in {"TimeoutError", "ClientError"}
    THEN "ConfigEntryNotReady"
    ELSE OuterTimeoutExit(exc)

\* How get_serial_number ends, given how the body of its try block ended.
GetSerialNumberEnds(g) ==
    IF g.kind = "raise" THEN Raise(GetSerialNumberRaises(g.exc)) ELSE g

\* A variant: client.connect() without the context manager, as create_client does.
LeftOpen(open) == open

\* RemootioClient.__aexit__: the session is closed
ClientAfterExit(open) == FALSE

---------------------------------------------------------------------------
(* The state machine *)

\* The submissions a user may type.
Pool == IF pool = "all" THEN Inputs ELSE SmallPool

PerFlow(v) == [f \in FlowIds |-> v]

InitFlows ==
    /\ pc = PerFlow("form")
    /\ input = PerFlow(NoInput)
    /\ result = PerFlow(ShowForm({}))
    /\ obs = PerFlow(NoObs)
    /\ clientOpen = PerFlow(FALSE)
    /\ waited = PerFlow(0)
    /\ late = PerFlow(0)
    /\ pending = PerFlow(NoOutcome)
    /\ entries = <<>>

\* One wizard, any submission.
Init ==
    /\ active = {1}
    /\ pool = "all"
    /\ InitFlows

\* Two wizards at once, a small pool of submissions.
InitConcurrent ==
    /\ active = FlowIds
    /\ pool = "small"
    /\ InitFlows

\* async_step_user(user_input) up to its first await: the format checks, the
\* ConnectionOptions, the split of the host, the start of the availability probe.
Submit(f, data) ==
    /\ pc[f] = "form"
    /\ data \in Pool
    /\ input' = [input EXCEPT ![f] = data]
    /\ waited' = [waited EXCEPT ![f] = 0]
    /\ late' = [late EXCEPT ![f] = 0]
    /\ UNCHANGED <<active, pool, clientOpen, pending>>
    /\ IF ValidateFormat(data) # "ok"
       THEN /\ obs' = [obs EXCEPT ![f] = NoObs]
            /\ EndStep(f, ValidateInputRaises(ValidateFormat(data)),
                       ValidatedRecord(data, ""))
       ELSE IF SplitHostFails(ConnectionOptionsOf(data).host)
       THEN /\ obs' = [obs EXCEPT ![f] =
                         [NoObs EXCEPT !.options = ConnectionOptionsOf(data),
                                       !.gsn = Raise("ValueError")]]
            /\ EndStep(f, ValidateInputRaises("ValueError"), ValidatedRecord(data, ""))
       ELSE /\ obs' = [obs EXCEPT ![f] =
                         [NoObs EXCEPT !.options = ConnectionOptionsOf(data),
                                       !.probeStarted = TRUE]]
            /\ pc' = [pc EXCEPT ![f] = "ws_connect"]
            /\ UNCHANGED <<result, entries>>

\* get_serial_number raises before the client exists.
FailBeforeClient(f, exc, o) ==
    /\ obs' = [obs EXCEPT ![f] = [o EXCEPT !.gsn = Raise(exc)]]
    /\ EndStep(f, ValidateInputRaises(exc), ValidatedRecord(input[f], ""))

\* check_device_availability: session.ws_connect(url, timeout=5 s)
WsConnect(f) ==
    /\ pc[f] = "ws_connect"
    /\ UNCHANGED <<active, pool, input, clientOpen, waited, late, pending>>
    /\ \/ /\ DeviceOf(obs[f].options.host) # NoDevice   \* connected, ws.close()
          /\ obs' = [obs EXCEPT ![f].available = "yes"]
          /\ pc' = [pc EXCEPT ![f] = "enter_client"]
          /\ UNCHANGED <<result, entries>>
       \/ /\ pc' = [pc EXCEPT ![f] = "tcp_connect"]     \* ClientError, TimeoutError
          /\ obs' = [obs EXCEPT ![f].tcpTried = TRUE]
          /\ UNCHANGED <<result, entries>>
       \/ FailBeforeClient(f, "ConfigEntryNotReady",    \* any other exception
                           [obs[f] EXCEPT !.available = "no"])

\* check_device_availability: the fallback, sock.connect_ex((host, port))
TcpConnect(f) ==
    /\ pc[f] = "tcp_connect"
    /\ UNCHANGED <<active, pool, input, clientOpen, waited, late, pending>>
    /\ \/ /\ DeviceOf(obs[f].options.host) # NoDevice   \* result == 0
          /\ obs' = [obs EXCEPT ![f].available = "yes"]
          /\ pc' = [pc EXCEPT ![f] = "enter_client"]
          /\ UNCHANGED <<result, entries>>
       \/ FailBeforeClient(f, "ConfigEntryNotReady",    \* result # 0, or it raised
                           [obs[f] EXCEPT !.available = "no"])

\* What the client's __aenter__ may raise.
EnterErrors(options) ==
    {"RemootioClientConnectionEstablishmentError", "ClientError", "TimeoutError"}
      \cup (IF CredentialsOk(options) THEN {} ELSE {"RemootioClientAuthenticationError"})

\* async with async_timeout.timeout(...): async with RemootioClient(...) as client
EnterClient(f) ==
    /\ pc[f] = "enter_client"
    /\ UNCHANGED <<active, pool, input, waited, pending>>
    /\ \/ /\ \E d \in 0..MaxEnterDelay :
                /\ d < TimeoutTicks
                /\ late' = [late EXCEPT ![f] = d]
          /\ clientOpen' = [clientOpen EXCEPT ![f] = TRUE]
          /\ obs' = [obs EXCEPT ![f].clientCreated = TRUE, ![f].entered = TRUE]
          /\ pc' = [pc EXCEPT ![f] = "wait_connected"]
          /\ UNCHANGED <<result, entries>>
       \/ /\ \E e \in EnterErrors(obs[f].options) :
                FailBeforeClient(f, GetSerialNumberRaises(e),
                                 [obs[f] EXCEPT !.clientCreated = TRUE])
          /\ UNCHANGED <<clientOpen, late>>

\* _wait_for_connected: while not client.connected ... return client.connected
PollConnected(f) ==
    /\ pc[f] = "wait_connected"
    /\ UNCHANGED <<active, pool, input, result, clientOpen, waited, late, entries>>
    /\ \/ /\ pc' = [pc EXCEPT ![f] = "sleep"]            \* not connected
          /\ UNCHANGED <<obs, pending>>
       \/ /\ CredentialsOk(obs[f].options)               \* connected
          /\ \E again \in BOOLEAN :
                LET body == ConnectedBody(DeviceOf(obs[f].options.host), again)
                IN  /\ obs' = [obs EXCEPT ![f].sawConnected = TRUE,
                                          ![f].waitResult = IF again THEN "true" ELSE "false",
                                          ![f].checks = body.checks]
                    /\ pending' = [pending EXCEPT ![f] = body.out]
          /\ pc' = [pc EXCEPT ![f] = "exit_client"]

\* await asyncio.sleep(REMOOTIO_DELAY), and the timers that are due after it:
\* the outer one started `late` delays before the inner one.
Sleep(f) ==
    /\ pc[f] = "sleep"
    /\ waited[f] < TimeoutTicks
    /\ waited' = [waited EXCEPT ![f] = @ + 1]
    /\ UNCHANGED <<active, pool, input, result, clientOpen, late, entries>>
    /\ \/ /\ late[f] + waited[f] + 1 < TimeoutTicks
          /\ pc' = [pc EXCEPT ![f] = "wait_connected"]
          /\ UNCHANGED <<obs, pending>>
       \/ /\ late[f] + waited[f] + 1 >= TimeoutTicks    \* the outer timer fires first
          /\ obs' = [obs EXCEPT ![f].timedOutBy = "outer"]
          /\ pending' = [pending EXCEPT ![f] = Raise("CancelledError")]
          /\ pc' = [pc EXCEPT ![f] = "exit_client"]
       \/ /\ waited[f] + 1 >= TimeoutTicks              \* the inner timer fires first
          /\ obs' = [obs EXCEPT ![f].timedOutBy = "inner", ![f].waitResult = "false",
                                ![f].checks =
                                    ConnectedBody(DeviceOf(obs[f].options.host), FALSE).checks]
          /\ pending' = [pending EXCEPT ![f] =
                            ConnectedBody(DeviceOf(obs[f].options.host), FALSE).out]
          /\ pc' = [pc EXCEPT ![f] = "exit_client"]

\* RemootioClient.__aexit__, then the end of get_serial_number, of
\* validate_input and of the handler.
ExitClient(f) ==
    /\ pc[f] = "exit_client"
    /\ clientOpen' = [clientOpen EXCEPT ![f] = ClientAfterExit(@)]
    /\ obs' = [obs EXCEPT ![f].gsn = GetSerialNumberEnds(pending[f])]
    /\ pending' = [pending EXCEPT ![f] = NoOutcome]
    /\ EndWith(f, GetSerialNumberEnds(pending[f]))
    /\ UNCHANGED <<active, pool, input, waited, late>>

\* The form is on the screen again and the user starts over; what is
\* remembered of the last submission is dropped.
Retry(f) ==
    /\ pc[f] = "shown"
    /\ pc' = [pc EXCEPT ![f] = "form"]
    /\ input' = [input EXCEPT ![f] = NoInput]
    /\ result' = [result EXCEPT ![f] = ShowForm({})]
    /\ obs' = [obs EXCEPT ![f] = NoObs]
    /\ waited' = [waited EXCEPT ![f] = 0]
    /\ late' = [late EXCEPT ![f] = 0]
    /\ UNCHANGED <<active, pool, clientOpen, pending, entries>>

\* The wizard is opened again after it ended: async_step_user(None).
StartFlow(f) ==
    /\ pc[f] = "finished"
    /\ pc' = [pc EXCEPT ![f] = "form"]
    /\ input' = [input EXCEPT ![f] = NoInput]
    /\ result' = [result EXCEPT ![f] = ShowForm({})]
    /\ obs' = [obs EXCEPT ![f] = NoObs]
    /\ waited' = [waited EXCEPT ![f] = 0]
    /\ late' = [late EXCEPT ![f] = 0]
    /\ UNCHANGED <<active, pool, clientOpen, pending, entries>>

Next ==
    \/ \E f \in active : \E data \in Pool : Submit(f, data)
    \/ \E f \in active : WsConnect(f)
    \/ \E f \in active : TcpConnect(f)
    \/ \E f \in active : EnterClient(f)
    \/ \E f \in active : PollConnected(f)
    \/ \E f \in active : Sleep(f)
    \/ \E f \in active : ExitClient(f)
    \/ \E f \in active : Retry(f)
    \/ \E f \in active : StartFlow(f)

\* One wizard, the small pool.
InitWait ==
    /\ active = {1}
    /\ pool = "small"
    /\ InitFlows

Spec == Init /\ [][Next]_vars

\* The event loop runs a handler that is ready: a sleep ends, a due timer
\* fires, the reads after them are made, the client's __aexit__ returns.
Fairness ==
    \A f \in FlowIds :
        /\ WF_vars(PollConnected(f))
        /\ WF_vars(Sleep(f))
        /\ WF_vars(ExitClient(f))

SpecWait == InitWait /\ [][Next]_vars /\ Fairness

SpecConcurrent == InitConcurrent /\ [][Next]_vars

---------------------------------------------------------------------------
(* Properties *)

\* The handler of flow f has ended for the submission input[f].
Done(f) == pc[f] \in {"shown", "finished"}

\* This step is a submission by flow f.
Submits(f) == pc[f] = "form" /\ pc'[f] # "form"

\* This step ends the handler of flow f.
Ends(f) == ~ Done(f) /\ Done(f)'

\* This step starts no network activity for flow f and creates no entry.
Quiet(f) ==
    /\ ~ obs'[f].probeStarted
    /\ ~ obs'[f].clientCreated
    /\ clientOpen' = clientOpen
    /\ entries' = entries

\* C1: a submission whose host does not match the host pattern re-shows the
\* form with host_invalid on the host field, whatever the keys are, and starts
\* neither the availability probe nor a client session.
C1_InvalidHostNoNetwork ==
    [][\A f \in FlowIds :
          (Submits(f) /\ ~ HostMatches(input'[f].host))
            => /\ pc'[f] = "shown"
               /\ result'[f] = ShowForm({<<"host", "host_invalid">>})
               /\ Quiet(f)]_vars

C1_Witness ==
    /\ pc[1] = "shown"
    /\ input[1].host = HostUrl
    /\ input[1].api_secret_key = KeyShort
    /\ input[1].api_auth_key = KeyMixedB
    /\ result[1].errors = {<<"host", "host_invalid">>}

\* C2: with a valid host, a secret key that is not 64 hex characters after
\* uppercasing gives the secret-key error alone; with valid host and secret
\* key, such an auth key gives the auth-key error alone; the form is re-shown,
\* no entry is created and nothing touches the network.
C2_KeyErrorsInOrder ==
    [][\A f \in FlowIds :
          (Submits(f) /\ HostMatches(input'[f].host))
            => /\ ~ KeyMatches(Upper(input'[f].api_secret_key))
                    => /\ pc'[f] = "shown"
                       /\ result'[f] = ShowForm({<<"api_secret_key",
                                                   "secret__api_secret_key_invalid">>})
                       /\ Quiet(f)
               /\ (/\ KeyMatches(Upper(input'[f].api_secret_key))
                   /\ ~ KeyMatches(Upper(input'[f].api_auth_key)))
                    => /\ pc'[f] = "shown"
                       /\ result'[f] = ShowForm({<<"api_auth_key",
                                                   "secret__api_auth_key_invalid">>})
                       /\ Quiet(f)]_vars

C2_Witness ==
    /\ pc[1] = "shown"
    /\ input[1].host = HostGwIp
    /\ input[1].api_secret_key = KeyNonHex
    /\ input[1].api_auth_key = KeyShort
    /\ result[1].errors = {<<"api_secret_key", "secret__api_secret_key_invalid">>}
    /\ Len(entries) = 1

\* The device behind the host of flow f's submission.
DeviceOfFlow(f) == DeviceOf(input[f].host)

\* No entry belongs to a device without a sensor or with too old an API.
OnlySupportedEntries ==
    \A i \in DOMAIN entries :
        /\ DeviceOf(entries[i].data.host).sensor
        /\ DeviceOf(entries[i].data.host).api >= EXPECTED_MINIMUM_API_VERSION
        /\ DeviceOf(entries[i].data.host).serial = entries[i].unique_id

\* C3: valid host and keys, nothing listens at the address (the WebSocket
\* attempt and the TCP fallback both fail): the handler ends with the
\* connectivity error on the form, not the generic one, no client session
\* was opened and no entry was created.
C3_UnreachableIsCannotConnect ==
    \A f \in FlowIds :
        (/\ Done(f)
         /\ DeviceOfFlow(f) = NoDevice
         /\ obs[f].tcpTried
         /\ obs[f].available = "no")
          => /\ result[f] = ShowForm({<<"base", "cannot_connect">>})
             /\ ~ obs[f].clientCreated
             /\ ~ clientOpen[f]

\* C4 as stated: a reachable device without a sensor ends the flow with the
\* abort unsupported_device whether or not its keys were the right ones
\* (connection failures and timeouts aside).
C4_AbortWhateverTheCredentials ==
    \A f \in FlowIds :
        (/\ Done(f)
         /\ obs[f].available = "yes"
         /\ ~ DeviceOfFlow(f).sensor
         /\ obs[f].gsn.exc \notin {"ConfigEntryNotReady",
                                   "RemootioClientConnectionEstablishmentError"})
          => result[f] = Abort("unsupported_device")

\* C4 as amended: a reachable device without a sensor ends the flow with the
\* abort unsupported_device once the wait for the connected flag has returned
\* true; when the client library raises its authentication error instead, the
\* form is shown again with invalid_auth; no entry is ever made for the device.
C4_NoSensorAbortsOnceConnected ==
    /\ OnlySupportedEntries
    /\ \A f \in FlowIds :
        (/\ Done(f)
         /\ obs[f].available = "yes"
         /\ ~ DeviceOfFlow(f).sensor)
          => /\ obs[f].waitResult = "true"
                  => /\ result[f] = Abort("unsupported_device")
                     /\ pc[f] = "finished"
             /\ obs[f].gsn = Raise("RemootioClientAuthenticationError")
                  => result[f] = ShowForm({<<"base", "invalid_auth">>})

C4_Witness ==
    /\ pc[1] = "finished"
    /\ input[1].host = HostBare
    /\ obs[1].waitResult = "true"
    /\ obs[1].checks = {"sensor"}
    /\ result[1] = Abort("unsupported_device")

\* C5: a connected device with a sensor whose API version is below the
\* minimum ends the flow with an abort, not with a form; its serial number
\* is never read and no entry is made for it.
C5_OldApiAborts ==
    /\ OnlySupportedEntries
    /\ \A f \in FlowIds :
        (/\ Done(f)
         /\ obs[f].waitResult = "true"
         /\ DeviceOfFlow(f).sensor
         /\ DeviceOfFlow(f).api < EXPECTED_MINIMUM_API_VERSION)
          => /\ result[f].type = "abort"
             /\ result[f] = Abort("unsupported_device")
             /\ pc[f] = "finished"
             /\ obs[f].checks = {"sensor", "api"}

C5_Witness ==
    /\ pc[1] = "finished"
    /\ input[1].host = HostOld
    /\ obs[1].waitResult = "true"
    /\ obs[1].gsn = Raise("UnsupportedRemootioApiVersionError")
    /\ result[1].type = "abort"

\* C6: when validate_input returns, the record it returns holds the host as
\* typed, both keys uppercased (64 uppercase hex characters, also when typed in
\* lower or mixed case), the class the user chose and the serial number the
\* device reported; the ConnectionOptions held the same uppercased keys.
C6_RecordIsNormalized ==
    [][\A f \in FlowIds :
          (Ends(f) /\ obs'[f].gsn.kind = "return")
            => /\ \E i \in DOMAIN entries' : entries'[i].unique_id = obs'[f].gsn.serial
               /\ LET at == CHOOSE i \in DOMAIN entries' :
                                entries'[i].unique_id = obs'[f].gsn.serial
                      rec == entries'[at].data
                      typed == input[f]
                  IN  /\ rec.host = typed.host
                      /\ rec.api_secret_key = Upper(typed.api_secret_key)
                      /\ rec.api_auth_key = Upper(typed.api_auth_key)
                      /\ KeyMatches(rec.api_secret_key)
                      /\ KeyMatches(rec.api_auth_key)
                      /\ rec.device_class = typed.device_class
                      /\ rec.serial_number = DeviceOf(typed.host).serial
                      /\ rec.serial_number = obs'[f].gsn.serial
                      /\ obs[f].options.host = rec.host
                      /\ obs[f].options.api_secret_key = rec.api_secret_key
                      /\ obs[f].options.api_auth_key = rec.api_auth_key
                      /\ result'[f].type = "create_entry" => result'[f].data = rec]_vars

C6_Witness ==
    /\ pc[1] = "finished"
    /\ input[1].api_secret_key = KeyLowerA
    /\ input[1].api_auth_key = KeyMixedB
    /\ input[1].device_class = "gate"
    /\ result[1].type = "create_entry"
    /\ result[1].data.api_secret_key = KeyUpperA
    /\ result[1].data.api_auth_key = KeyUpperB
    /\ result[1].data.device_class = "gate"

\* No two config entries have the same unique id.
UniqueIds ==
    \A i, j \in DOMAIN entries :
        entries[i].unique_id = entries[j].unique_id => i = j

\* C7: no two config entries ever have the same serial number: a successful
\* validation for a registered serial number aborts with already_configured
\* and adds no entry; one for a serial number not yet registered adds exactly
\* one entry, whose unique id is that serial number.
C7_OneEntryPerSerial ==
    [][/\ UniqueIds'
       /\ \A f \in FlowIds :
            (Ends(f) /\ obs'[f].gsn.kind = "return")
              => LET sn == obs'[f].gsn.serial
                 IN  IF \E i \in DOMAIN entries : entries[i].unique_id = sn
                     THEN /\ result'[f] = Abort("already_configured")
                          /\ Len(entries') = Len(entries)
                     ELSE /\ result'[f].type = "create_entry"
                          /\ Len(entries') = Len(entries) + 1
                          /\ SubSeq(entries', 1, Len(entries)) = entries
                          /\ entries'[Len(entries')].unique_id = sn]_vars

C7_Witness ==
    /\ pc[1] = "finished"
    /\ pc[2] = "finished"
    /\ input[1].host # input[2].host
    /\ obs[1].gsn.serial = obs[2].gsn.serial
    /\ result[1].type = "create_entry"
    /\ result[2] = Abort("already_configured")
    /\ Len(entries) = 1

\* C8: when the client library raises its authentication error while the
\* session is opened, the form is shown again with the base error
\* invalid_auth; the flow is not aborted and no entry is created.
C8_AuthErrorIsInvalidAuth ==
    [][\A f \in FlowIds :
          (Ends(f) /\ obs'[f].gsn = Raise("RemootioClientAuthenticationError"))
            => /\ result'[f] = ShowForm({<<"base", "invalid_auth">>})
               /\ pc'[f] = "shown"
               /\ entries' = entries]_vars

C8_Witness ==
    /\ pc[1] = "shown"
    /\ input[1].host = HostGate
    /\ obs[1].available = "yes"
    /\ obs[1].clientCreated
    /\ obs[1].gsn = Raise("RemootioClientAuthenticationError")
    /\ result[1].errors = {<<"base", "invalid_auth">>}

\* The wait of flow f has begun and no read of the connected flag gave True.
NeverConnected(f) == obs[f].entered /\ ~ obs[f].sawConnected

\* What C9 says of every state.
C9_Safety ==
    \A f \in FlowIds :
        /\ (pc[f] \in {"wait_connected", "sleep"})
              => late[f] + waited[f] < TimeoutTicks
        /\ (Done(f) /\ NeverConnected(f))
              => /\ obs[f].gsn = Raise("ConfigEntryNotReady")
                 /\ obs[f].timedOutBy \in {"outer", "inner"}
                 /\ obs[f].checks = {}
                 /\ result[f].type = "form"

\* C9: when the probe succeeds and the connected flag never becomes true,
\* get_serial_number ends, and it ends with ConfigEntryNotReady, whichever
\* of the two timeouts fires first; no serial number is returned and neither
\* the sensor check, the API-version check nor the read of the serial number
\* is made.
C9_NeverConnectedIsNotReady ==
    /\ []C9_Safety
    /\ \A f \in FlowIds : (pc[f] = "wait_connected") ~> (obs[f].gsn # NoOutcome)

C9_Witness ==
    /\ pc[1] = "shown"
    /\ NeverConnected(1)
    /\ waited[1] = TimeoutTicks
    /\ obs[1].timedOutBy = "inner"
    /\ obs[1].gsn = Raise("ConfigEntryNotReady")

\* C10: the client session is open only inside the body of the "async with":
\* on every way out (serial number returned, no sensor, API too old, flag
\* never seen, timeout or cancellation) it is closed when get_serial_number
\* has returned or raised.
C10_ClientIsScoped ==
    \A f \in FlowIds :
        /\ clientOpen[f] => pc[f] \in {"wait_connected", "sleep", "exit_client"}
        /\ pc[f] \in {"wait_connected", "sleep", "exit_client"} => clientOpen[f]
        /\ (obs[f].gsn # NoOutcome /\ obs[f].entered) => ~ clientOpen[f]

C10_Witness ==
    /\ pc[1] = "shown"
    /\ obs[1].entered
    /\ obs[1].timedOutBy = "outer"
    /\ obs[1].gsn = Raise("ConfigEntryNotReady")
    /\ ~ clientOpen[1]

====
